---- MODULE Spec2Model ----
(***************************************************************************)
(* Model of src/app.py: the LINE bot that parses "store / name amount"     *)
(* messages, looks every name up in the roster sheet, renders one receipt  *)
(* PDF per entry and relays the links.                                     *)
(*                                                                         *)
(* Text is a sequence of raw lines (what str.splitlines() yields), a line  *)
(* is a sequence of characters, a character is a one-element string.       *)
(* Characters outside ASCII carry a spelled-out name:                      *)
(*   "KA_MA" "KA_I" "KA_N" "KA_E" "KA_MU"  katakana  ma i n e mu           *)
(*   "HI_MA" "HI_I" "HI_N" "HI_E" "HI_MU"  hiragana  ma i n e mu           *)
(*   "TA" "NAKA"                            kanji of the name Tanaka       *)
(*   "SA" "TOU"  "SUZU" "KI"                kanji of Satou and of Suzuki   *)
(*   "KA_DO" "KA_RA" "KA_GO"                katakana  do ra go             *)
(*   "YEN"                                  the currency glyph             *)
(*   "IDSP"                                 the ideographic space U+3000   *)
(***************************************************************************)
EXTENDS Integers, Sequences, FiniteSets, TLC

VARIABLES
    mode,           \* which part of the program this behaviour exercises
    \* detect_store_and_parse_lines, one loop iteration per step
    ptext,          \* the text being parsed: a sequence of raw lines
    ppos,           \* number of raw lines consumed by the for loop
    current_store,  \* the local current_store ("None" while unset)
    items,          \* the local items
    itemLine,       \* bookkeeping: itemLine[k] is the raw line items[k] came from
    \* on_message
    pc,             \* position of the handler
    text,           \* event.message.text
    cast_df,        \* the roster: the set of values of the key column
    loads,          \* bookkeeping: number of load_cast_df calls made
    idx,            \* number of entries the per-entry loop has consumed
    urls,           \* the local urls (success lines)
    errors,         \* the local errors (failure lines)
    outbound,       \* the reply_message / push_message calls made, in order
    trace,          \* bookkeeping: what the loop did for each entry, in order
    \* the output directory and the create_receipt calls in progress
    files,          \* names of the files that exist in OUTPUT_DIR
    rpc,            \* per thread: position inside create_receipt
    rbase,          \* per thread: the requested file_path
    rcand,          \* per thread: the counter i of get_unique_path
    rpath,          \* per thread: file_path after get_unique_path
    rbefore,        \* bookkeeping, per thread: the files that existed at the call
    calls,          \* bookkeeping: the finished create_receipt calls
    \* the page create_receipt draws
    receipt,        \* the arguments of the create_receipt call
    canvas          \* the canvas operations made so far, in order

vars == << mode, ptext, ppos, current_store, items, itemLine,
           pc, text, cast_df, loads, idx, urls, errors, outbound, trace,
           files, rpc, rbase, rcand, rpath, rbefore, calls, receipt, canvas >>

parseVars  == << ptext, ppos, current_store, items, itemLine >>
handlerVars == << pc, text, cast_df, loads, idx, urls, errors, outbound, trace >>
threadVars == << rpc, rbase, rcand, rpath, rbefore, calls >>
drawVars == << receipt, canvas >>

-----------------------------------------------------------------------------
(* Bounds of the model *)

MaxParseLines == 3      \* raw lines of a text given to the parser alone
MaxMsgLines == 7        \* raw lines of a message given to on_message
MaxCalls == 3           \* create_receipt calls of the renderer behaviours
MaxThreads == 2         \* threads that may be inside create_receipt at once

-----------------------------------------------------------------------------
(* Characters *)

Whitespace == {" ", "IDSP"}
DigitChars == {"0", "1", "2", "3", "4", "5", "6", "7", "8", "9"}

DigitVal(c) ==
    CASE c = "0" -> 0 [] c = "1" -> 1 [] c = "2" -> 2 [] c = "3" -> 3
      [] c = "4" -> 4 [] c = "5" -> 5 [] c = "6" -> 6 [] c = "7" -> 7
      [] c = "8" -> 8 [] c = "9" -> 9

DigitChar(d) ==
    CASE d = 0 -> "0" [] d = 1 -> "1" [] d = 2 -> "2" [] d = 3 -> "3"
      [] d = 4 -> "4" [] d = 5 -> "5" [] d = 6 -> "6" [] d = 7 -> "7"
      [] d = 8 -> "8" [] d = 9 -> "9"

\* str(n) for n >= 0
RECURSIVE DecStr(_)
DecStr(n) == IF n < 10 THEN << DigitChar(n) >>
             ELSE Append(DecStr(n \div 10), DigitChar(n % 10))

\* the length of the longest prefix of s whose characters are all in C
PrefixLen(s, C) ==
    CHOOSE n \in 0 .. Len(s) :
        /\ \A i \in 1 .. n : s[i] \in C
        /\ n = Len(s) \/ s[n + 1] \notin C

Drop(s, n) == SubSeq(s, n + 1, Len(s))
Take(s, n) == SubSeq(s, 1, n)

RECURSIVE RStrip(_)
RStrip(s) == IF s # << >> /\ s[Len(s)] \in Whitespace THEN RStrip(Take(s, Len(s) - 1)) ELSE s

\* str.strip()
Strip(s) == RStrip(Drop(s, PrefixLen(s, Whitespace)))

\* k in line
Contains(k, line) ==
    \E i \in 0 .. (Len(line) - Len(k)) : SubSeq(line, i + 1, i + Len(k)) = k

-----------------------------------------------------------------------------
(* STORE_NAMES, in declaration order (a dict iterates in insertion order) *)

STORE_NAMES ==
    << [store |-> "MINE",
        keys  |-> << <<"KA_MA", "KA_I", "KA_N">>,
                     <<"HI_MA", "HI_I", "HI_N">>,
                     <<"M", "I", "N", "E">> >>],
       [store |-> "M",
        keys  |-> << <<"M">>, <<"HI_E", "HI_MU">>, <<"KA_E", "KA_MU">> >>] >>

Stores == { STORE_NAMES[i].store : i \in DOMAIN STORE_NAMES }

\* any(k in line for k in keys)
AnyKeyIn(keys, line) == \E j \in DOMAIN keys : Contains(keys[j], line)

\* faulty variant: the store is not carried over a line without a keyword
SwitchStoreForgets(line, cur) ==
    LET hits == { i \in DOMAIN STORE_NAMES : AnyKeyIn(STORE_NAMES[i].keys, line) }
    IN  IF hits = {} THEN "None"
        ELSE STORE_NAMES[CHOOSE i \in hits : \A j \in hits : i <= j].store

\* faulty variant: the loop has no break, the last store with a keyword wins
SwitchStoreLastWins(line, cur) ==
    LET hits == { i \in DOMAIN STORE_NAMES : AnyKeyIn(STORE_NAMES[i].keys, line) }
    IN  IF hits = {} THEN cur
        ELSE STORE_NAMES[CHOOSE i \in hits : \A j \in hits : j <= i].store

\* the "for store, keys in STORE_NAMES.items()" loop with its break
SwitchStore(line, cur) ==
    LET hits == { i \in DOMAIN STORE_NAMES : AnyKeyIn(STORE_NAMES[i].keys, line) }
    IN  IF hits = {} THEN cur
        ELSE STORE_NAMES[CHOOSE i \in hits : \A j \in hits : i <= j].store

-----------------------------------------------------------------------------
(* LINE_PATTERN = ([^-\d\s]+)\s*¥?([\d,]+), applied with .match()          *)

NoMatch == [matched |-> FALSE]

\* the characters a message line of the model may hold; [^-\d\s] and [\d,]
\* as sets of them
Chars ==
    Whitespace \cup DigitChars
      \cup {"-", ",", ".", "/", "_", "=", "YEN", "TA", "NAKA", "M", "I", "N", "E", "A",
            "SA", "TOU", "SUZU", "KI", "J", "O", "B", "KA_DO", "KA_RA", "KA_GO",
            "KA_MA", "KA_I", "KA_N", "KA_E", "KA_MU",
            "HI_MA", "HI_I", "HI_N", "HI_E", "HI_MU"}
LabelChars == Chars \ ({"-"} \cup DigitChars \cup Whitespace)
AmountChars == DigitChars \cup {","}

\* \s*¥?([\d,]+) at the start of s: the amount text, or << >> for no match.
\* Each quantifier is greedy; giving back a space or the glyph leaves a
\* character that [\d,] rejects, so the greedy choice is the only candidate.
RestMatch(s) ==
    LET a == Drop(s, PrefixLen(s, Whitespace))
        b == IF a # << >> /\ Head(a) = "YEN" THEN Tail(a) ELSE a
    IN  Take(b, PrefixLen(b, AmountChars))

\* group 1 is greedy and backtracks: the longest label prefix after which the
\* rest of the pattern matches
LINE_PATTERN_match(line) ==
    LET run == PrefixLen(line, LabelChars)
        ks  == { k \in 1 .. run : RestMatch(Drop(line, k)) # << >> }
    IN  IF ks = {} THEN NoMatch
        ELSE LET k == CHOOSE x \in ks : \A y \in ks : y <= x
             IN  [matched |-> TRUE, name2 |-> Take(line, k),
                  amount_s |-> RestMatch(Drop(line, k))]

\* faulty variant: the commas stay in
StripCommasMissing(s) == s

\* amount_s.replace(',', '')
StripCommas(s) == SelectSeq(s, LAMBDA c : c # ",")

RECURSIVE DecVal(_)
DecVal(ds) == IF ds = << >> THEN 0
              ELSE 10 * DecVal(Take(ds, Len(ds) - 1)) + DigitVal(ds[Len(ds)])

\* int(): ValueError unless the text is one or more digits
IntOk(ds) == ds # << >> /\ \A i \in DOMAIN ds : ds[i] \in DigitChars

\* faulty variant: the store is not tested
EmitsWithoutStore(m, cur) == m.matched

\* "if m and current_store"
Emits(m, cur) == m.matched /\ cur # "None"

-----------------------------------------------------------------------------
(* detect_store_and_parse_lines *)

\* one iteration of the for loop over text.splitlines(); st holds the two
\* locals current_store and items
ParseLine(st, raw) ==
    LET line == Strip(raw)
    IN  IF line = << >> THEN st
        ELSE
          LET cur == SwitchStore(line, st.current_store)
              m   == LINE_PATTERN_match(line)
          IN  IF Emits(m, cur)
              THEN LET ds == StripCommas(m.amount_s)
                   IN  IF ~IntOk(ds)
                       THEN [current_store |-> cur, items |-> st.items]
                       ELSE [current_store |-> cur,
                             items |-> Append(st.items,
                                         [store |-> cur,
                                          name2 |-> Strip(m.name2),
                                          amount |-> DecVal(ds)])]
              ELSE [current_store |-> cur, items |-> st.items]

RECURSIVE ParseFrom(_, _)
ParseFrom(st, lines) ==
    IF lines = << >> THEN st ELSE ParseFrom(ParseLine(st, Head(lines)), Tail(lines))

detect_store_and_parse_lines(t) ==
    ParseFrom([current_store |-> "None", items |-> << >>], t).items

-----------------------------------------------------------------------------
(* get_unique_path and create_receipt.  A path is the file name inside     *)
(* OUTPUT_DIR, as a sequence of characters.                                *)

\* os.path.splitext: split before the last dot, unless the name has no dot
\* or nothing but dots before it
SplitExt(p) ==
    LET dots == { i \in DOMAIN p : p[i] = "." /\ \E j \in 1 .. (i - 1) : p[j] # "." }
    IN  IF dots = {} THEN [stem |-> p, ext |-> << >>]
        ELSE LET d == CHOOSE i \in dots : \A j \in dots : j <= i
             IN  [stem |-> Take(p, d - 1), ext |-> Drop(p, d - 1)]

\* f"{stem}_{i}{ext}"
Candidate(base_path, i) ==
    LET se == SplitExt(base_path) IN se.stem \o <<"_">> \o DecStr(i) \o se.ext

\* faulty variant: the existence test always answers no
ExistsNever(fs, p) == FALSE

\* os.path.exists(p) with the files fs in OUTPUT_DIR
Exists(fs, p) == p \in fs

\* the while loop of get_unique_path, entered with counter i
RECURSIVE FirstFree(_, _, _)
FirstFree(fs, base_path, i) ==
    IF Exists(fs, Candidate(base_path, i)) THEN FirstFree(fs, base_path, i + 1)
    ELSE Candidate(base_path, i)

\* get_unique_path run without interruption against the files fs
get_unique_path(fs, base_path) ==
    IF ~Exists(fs, base_path) THEN base_path ELSE FirstFree(fs, base_path, 2)

-----------------------------------------------------------------------------
(* Sample inputs *)

PDF == <<".", "p", "d", "f">>

\* file names requested of create_receipt and files already in OUTPUT_DIR
A_PDF   == <<"a">> \o PDF
A_2_PDF == <<"a", "_", "2">> \o PDF
A_3_PDF == <<"a", "_", "3">> \o PDF
B_PDF   == <<"b">> \o PDF

BasePaths == {A_PDF, A_2_PDF, B_PDF}
ExistingFiles == SUBSET {A_PDF, A_2_PDF, A_3_PDF}

\* raw lines given to the parser
ParseLines ==
    { << >>,
      <<" ">>,
      <<"M", "I", "N", "E">>,
      <<"M">>,
      <<"KA_E", "KA_MU">>,
      <<"M", " ", "8">>,
      <<"M", "TA", " ", "8">>,
      <<"TA", "NAKA", " ", "8", "0">>,
      <<"TA", " ", "1", "2">>,
      <<"TA", " ", "1", ",", "2">>,
      <<"TA", " ", ",", ",">>,
      <<"TA", "YEN", "8">>,
      <<" ", "A", " ", "8", " ">>,
      <<"-", "TA", " ", "8">>,
      <<"8", "0">> }

SeqsUpTo(S, n) == UNION { [1 .. k -> S] : k \in 0 .. n }

\* the message of the usage text: MINE / Satou 12000 / Suzuki 15000 / M /
\* Tanaka 8000
ExampleText ==
    << <<"M", "I", "N", "E">>,
       <<"SA", "TOU", " ", "1", "2", "0", "0", "0">>,
       <<"SUZU", "KI", " ", "1", "5", "0", "0", "0">>,
       <<"M">>,
       <<"TA", "NAKA", " ", "8", "0", "0", "0">> >>

Threads == 1 .. MaxThreads

-----------------------------------------------------------------------------
(* Values of the variables a behaviour does not use *)

ParseIdle ==
    /\ ptext = << >> /\ ppos = 0 /\ current_store = "None"
    /\ items = << >> /\ itemLine = << >>

HandlerIdle ==
    /\ pc = "idle" /\ text = << >> /\ cast_df = {} /\ loads = 0
    /\ idx = 0 /\ urls = << >> /\ errors = << >> /\ outbound = << >>
    /\ trace = << >>

DrawIdle == receipt = [name2 |-> << >>] /\ canvas = << >>

ThreadsIdle ==
    /\ rpc = [t \in Threads |-> "idle"]
    /\ rbase = [t \in Threads |-> << >>]
    /\ rcand = [t \in Threads |-> 0]
    /\ rpath = [t \in Threads |-> << >>]
    /\ rbefore = [t \in Threads |-> {}]
    /\ calls = << >>

-----------------------------------------------------------------------------
(* The parser alone: one step per iteration of its for loop *)

InitParse ==
    /\ mode = "parse"
    /\ ptext \in SeqsUpTo(ParseLines, MaxParseLines) \cup {ExampleText}
    /\ ppos = 0 /\ current_store = "None" /\ items = << >> /\ itemLine = << >>
    /\ HandlerIdle /\ ThreadsIdle /\ DrawIdle /\ files = {}

ParseStep ==
    /\ mode = "parse" \/ pc = "parse"
    /\ ppos < Len(ptext)
    /\ LET st == ParseLine([current_store |-> current_store, items |-> items],
                           ptext[ppos + 1])
       IN  /\ current_store' = st.current_store
           /\ items' = st.items
           /\ itemLine' = IF Len(st.items) > Len(items)
                          THEN Append(itemLine, ppos + 1) ELSE itemLine
    /\ ppos' = ppos + 1
    /\ UNCHANGED << mode, drawVars, ptext, handlerVars, threadVars, files >>

NextParse == ParseStep

SpecParse == InitParse /\ [][NextParse]_vars

-----------------------------------------------------------------------------
(* create_receipt, one step per file-system access *)

Active == { t \in Threads : rpc[t] # "idle" }

\* a caller enters create_receipt with file_path = b
Begin(t, b) ==
    /\ rpc[t] = "idle"
    /\ Len(calls) + Cardinality(Active) < MaxCalls
    /\ rpc' = [rpc EXCEPT ![t] = "exists"]
    /\ rbase' = [rbase EXCEPT ![t] = b]
    /\ rbefore' = [rbefore EXCEPT ![t] = files]
    /\ UNCHANGED << mode, drawVars, parseVars, handlerVars, files, rcand, rpath, calls >>

\* get_unique_path: "if not os.path.exists(base_path): return base_path"
CheckBase(t) ==
    /\ rpc[t] = "exists"
    /\ IF ~Exists(files, rbase[t])
       THEN /\ rpath' = [rpath EXCEPT ![t] = rbase[t]]
            /\ rpc' = [rpc EXCEPT ![t] = "draw"]
            /\ UNCHANGED rcand
       ELSE /\ rcand' = [rcand EXCEPT ![t] = 2]
            /\ rpc' = [rpc EXCEPT ![t] = "loop"]
            /\ UNCHANGED rpath
    /\ UNCHANGED << mode, drawVars, parseVars, handlerVars, files, rbase, rbefore, calls >>

\* get_unique_path: one test of the while condition
CheckCandidate(t) ==
    /\ rpc[t] = "loop"
    /\ IF Exists(files, Candidate(rbase[t], rcand[t]))
       THEN /\ rcand' = [rcand EXCEPT ![t] = rcand[t] + 1]
            /\ UNCHANGED << rpc, rpath >>
       ELSE /\ rpath' = [rpath EXCEPT ![t] = Candidate(rbase[t], rcand[t])]
            /\ rpc' = [rpc EXCEPT ![t] = "draw"]
            /\ UNCHANGED rcand
    /\ UNCHANGED << mode, drawVars, parseVars, handlerVars, files, rbase, rbefore, calls >>

CallRecord(t, wrote, returned) ==
    [base |-> rbase[t], path |-> rpath[t], before |-> rbefore[t],
     at_save |-> files, wrote |-> wrote, returned |-> returned]

\* the call is over: its locals are gone
Return(t) ==
    /\ rpc' = [rpc EXCEPT ![t] = "idle"]
    /\ rbase' = [rbase EXCEPT ![t] = << >>]
    /\ rcand' = [rcand EXCEPT ![t] = 0]
    /\ rpath' = [rpath EXCEPT ![t] = << >>]
    /\ rbefore' = [rbefore EXCEPT ![t] = {}]

\* the drawing calls and c.save() succeed: the file at file_path is written
Save(t) ==
    /\ rpc[t] = "draw"
    /\ files' = files \cup {rpath[t]}
    /\ calls' = Append(calls, CallRecord(t, TRUE, TRUE))
    /\ Return(t)
    /\ UNCHANGED << mode, drawVars, parseVars, handlerVars >>

\* a drawing call or c.save() raises: the file was not opened, or it was
\* opened for writing and is left behind
SaveRaises(t) ==
    /\ rpc[t] = "draw"
    /\ \E opened \in BOOLEAN :
          /\ files' = IF opened THEN files \cup {rpath[t]} ELSE files
          /\ calls' = Append(calls, CallRecord(t, opened, FALSE))
    /\ Return(t)
    /\ UNCHANGED << mode, drawVars, parseVars, handlerVars >>

\* callers that never overlap (one message is processed synchronously)
BeginSeq(t, b) == Active = {} /\ Begin(t, b)

InitRender ==
    /\ files \in ExistingFiles
    /\ ThreadsIdle /\ ParseIdle /\ HandlerIdle /\ DrawIdle

InitSeq == mode = "seq" /\ InitRender
InitPar == mode = "par" /\ InitRender

NextSeq ==
    \/ \E t \in Threads, b \in BasePaths : BeginSeq(t, b)
    \/ \E t \in Threads : CheckBase(t)
    \/ \E t \in Threads : CheckCandidate(t)
    \/ \E t \in Threads : Save(t)
    \/ \E t \in Threads : SaveRaises(t)

NextPar ==
    \/ \E t \in Threads, b \in BasePaths : Begin(t, b)
    \/ \E t \in Threads : CheckBase(t)
    \/ \E t \in Threads : CheckCandidate(t)
    \/ \E t \in Threads : Save(t)
    \/ \E t \in Threads : SaveRaises(t)

SpecSeq == InitSeq /\ [][NextSeq]_vars
SpecPar == InitPar /\ [][NextPar]_vars

-----------------------------------------------------------------------------
(* The page create_receipt draws.  A position is taken from the left or    *)
(* the right edge (x) and from the top edge (y), in millimetres plus       *)
(* points; the fixed Japanese texts are one spelled-out token each:        *)
(*   "RYOSHUSHO" the title, "HAKKOBI" the issue-date label,                *)
(*   "TADASHI" the purpose line, "SEINENGAPPI" the birthdate label.        *)

COMMON_COMPANY_NAME == <<"J", "O", "B", "KA_DO", "KA_RA", "KA_GO", "KA_N">>

FromLeft(mm, pt) == [edge |-> "left", mm |-> mm, pt |-> pt]
FromRight(mm) == [edge |-> "right", mm |-> mm, pt |-> 0]

Rect(color, kind) == [op |-> "rect", color |-> color, kind |-> kind]
DrawString(x, y, txt, size, color) ==
    [op |-> "drawString", x |-> x, y |-> y, text |-> txt, size |-> size,
     color |-> color]

\* faulty variant: every receipt is drawn as a personal one
IsPersonalAlways(name2) == TRUE

\* "name2 != COMMON_COMPANY_NAME"
IsPersonal(name2) == name2 # COMMON_COMPANY_NAME

\* the four lines under "if name2 != COMMON_COMPANY_NAME"
DetailLines(a) ==
    << DrawString(FromLeft(20, 90), 65, a.name, 10, "black"),
       DrawString(FromLeft(20, 90), 70, a.address, 10, "black"),
       DrawString(FromLeft(20, 90), 75, a.phone_number, 10, "black"),
       DrawString(FromLeft(20, 90), 80, <<"SEINENGAPPI", " ">> \o a.birthdate, 10,
                  "black") >>

\* the canvas operations of create_receipt, from the first rect to the
\* drawString of name2; the fill colour of a text is the last setFillColor
Page(a) ==
    << Rect("lightgrey", "fill"),
       Rect("black", "stroke"),
       DrawString(FromLeft(20, 175), 20, <<"RYOSHUSHO">>, 16, "black"),
       DrawString(FromRight(60), 22, <<"N", "o", ".", " ", " ", " ">>, 12, "black"),
       DrawString(FromRight(60), 30, <<"HAKKOBI", " ">> \o a.issue_date, 12, "black"),
       DrawString(FromLeft(20, 15), 30, COMMON_COMPANY_NAME, 17, "black"),
       DrawString(FromLeft(20, 150), 44,
                  <<"YEN", " ">> \o DecStr(a.amount) \o <<"-">>, 22, "black"),
       DrawString(FromLeft(20, 75), 56, <<"TADASHI">>, 12, "black") >>
      \o (IF IsPersonal(a.name2) THEN DetailLines(a) ELSE << >>)
      \o << DrawString(FromLeft(20, 240), 80, a.name2, 28,
                       IF IsPersonal(a.name2) THEN "purple" ELSE "black") >>

\* arguments create_receipt is called with
ReceiptArgs ==
    [ name2 : {COMMON_COMPANY_NAME, <<"A">>, <<"TA", "NAKA">>},
      name : {<< >>, <<"n">>},
      address : {<< >>, <<"a">>},
      phone_number : {<< >>, <<"0", "9", "0">>},
      birthdate : {<< >>, <<"1", "9", "9", "0">>},
      amount : {0, 8, 12000},
      issue_date : {<<"2", "0", "2", "5">>} ]

InitDraw ==
    /\ mode = "draw"
    /\ receipt \in ReceiptArgs
    /\ canvas = << >>
    /\ files = {}
    /\ ThreadsIdle /\ ParseIdle /\ HandlerIdle

\* create_receipt from the first canvas call to showPage
DrawReceipt ==
    /\ mode = "draw"
    /\ canvas = << >>
    /\ canvas' = Page(receipt)
    /\ UNCHANGED << mode, receipt, parseVars, handlerVars, threadVars, files >>

NextDraw == DrawReceipt

SpecDraw == InitDraw /\ [][NextDraw]_vars

-----------------------------------------------------------------------------
(* on_message *)

\* unidecode, character by character, for the characters of the model
UnidecodeChar(c) ==
    CASE c = "TA"    -> <<"T", "i", "a", "n", " ">>
      [] c = "NAKA"  -> <<"Z", "h", "o", "n", "g", " ">>
      [] c \in {"KA_MA", "HI_MA"} -> <<"m", "a">>
      [] c \in {"KA_I", "HI_I"}   -> <<"i">>
      [] c \in {"KA_N", "HI_N"}   -> <<"n">>
      [] c \in {"KA_E", "HI_E"}   -> <<"e">>
      [] c \in {"KA_MU", "HI_MU"} -> <<"m", "u">>
      [] c = "YEN"   -> <<"Y", "=">>
      [] c = "IDSP"  -> <<" ">>
      [] OTHER       -> << c >>

RECURSIVE unidecode(_)
unidecode(s) == IF s = << >> THEN << >> ELSE UnidecodeChar(Head(s)) \o unidecode(Tail(s))

\* (event.message.text or "").strip(), on a text held as raw lines: blank
\* lines at both ends go, then the blanks before the first and after the last
\* character
RECURSIVE DropBlankHead(_)
DropBlankHead(t) ==
    IF t # << >> /\ Strip(Head(t)) = << >> THEN DropBlankHead(Tail(t)) ELSE t

RECURSIVE DropBlankTail(_)
DropBlankTail(t) ==
    IF t # << >> /\ Strip(t[Len(t)]) = << >>
    THEN DropBlankTail(Take(t, Len(t) - 1)) ELSE t

StripText(t) ==
    LET u == DropBlankTail(DropBlankHead(t))
    IN  IF u = << >> THEN u
        ELSE LET v == [u EXCEPT ![1] = Drop(u[1], PrefixLen(u[1], Whitespace))]
             IN  [v EXCEPT ![Len(v)] = RStrip(v[Len(v)])]

\* faulty variant: the empty-items test is missing
NoItemsUnchecked(its) == FALSE

\* "if not items"
NoItems(its) == its = << >>

\* faulty variant: every label counts as registered
LookupAlwaysHit(df, name_ascii) == TRUE

\* hit = cast_df[cast_df['源氏名α'] == name_ascii]; not hit.empty
Lookup(df, name_ascii) == name_ascii \in df

\* f"{name2}_{amount}.pdf".replace('/', '_'), the name joined to OUTPUT_DIR
FileName(e) ==
    LET raw == e.name2 \o <<"_">> \o DecStr(e.amount) \o PDF
    IN  [i \in DOMAIN raw |-> IF raw[i] = "/" THEN "_" ELSE raw[i]]

\* the three lines an entry can produce
UnregisteredLine(e) ==
    [kind |-> "unregistered", store |-> e.store, name2 |-> e.name2,
     amount |-> e.amount, detail |-> << >>]
UrlLine(e, out) ==
    [kind |-> "url", store |-> e.store, name2 |-> e.name2,
     amount |-> e.amount, detail |-> out]
FailedLine(e, cause) ==
    [kind |-> "failed", store |-> e.store, name2 |-> e.name2,
     amount |-> e.amount, detail |-> cause]

RenderError == <<"e">>

\* the fixed texts
USAGE == [kind |-> "usage"]
ROSTER_ERROR == [kind |-> "roster_error"]
NONE_FOUND == [kind |-> "none_found"]

\* faulty variant: a miss only continues, without a failure line
MissResultDropped(errs, e) == errs

\* errors.append(...); continue
MissResult(errs, e) == Append(errs, UnregisteredLine(e))
\* faulty variant: the link is built from the requested file name
OkResultBaseName(us, e, out) == Append(us, UrlLine(e, FileName(e)))

\* url = f"{base_url}/pdfs/{os.path.basename(out)}"; urls.append(...)
OkResult(us, e, out) == Append(us, UrlLine(e, out))
\* faulty variant: the failure line is put in front
RaiseResultInFront(errs, e) == << FailedLine(e, RenderError) >> \o errs

\* except Exception as e: errors.append(...)
RaiseResult(errs, e) == Append(errs, FailedLine(e, RenderError))

\* faulty variant: a render failure ends the loop
AfterEntryAbortOnRaise(outcome, i, n) ==
    IF outcome # "raised" /\ i < n THEN "loop" ELSE "respond"

\* where the handler goes after i of the n entries: the for loop goes on
\* until the entries are exhausted, whatever the last outcome ("start",
\* "miss", "ok", "raised")
AfterEntry(outcome, i, n) == IF i < n THEN "loop" ELSE "respond"

\* faulty variant: the return after the roster error is missing
AfterRosterErrorGoOn == "loop"

\* where the handler goes when load_cast_df raised
AfterRosterError == "returned_roster_error"

ChunkSize == 5

RECURSIVE Chunks(_, _)
Chunks(s, n) ==
    IF s = << >> THEN << >>
    ELSE << Take(s, IF Len(s) < n THEN Len(s) ELSE n) >> \o Chunks(Drop(s, n), n)

ReplyCall(msgs) == [api |-> "reply_message", to |-> "reply_token", messages |-> msgs]
PushCall(msgs) == [api |-> "push_message", to |-> "user_id", messages |-> msgs]

\* one reply_message / push_message call per chunk
Replies(chunks) == [i \in DOMAIN chunks |-> ReplyCall(chunks[i])]
Pushes(chunks) == [i \in DOMAIN chunks |-> PushCall(chunks[i])]

\* the sends for the success lines
SendUrls(us) ==
    IF us # << >>
    THEN \* one reply per five messages collected, one more for the rest, then
         \* pushes of urls[5:] five at a time
         Replies(Chunks(us, ChunkSize))
           \o Pushes(Chunks(Drop(us, ChunkSize), ChunkSize))
    ELSE << ReplyCall(<< NONE_FOUND >>) >>

\* faulty variant: the failure lines are pushed in one call
SendErrorsAtOnce(errs) == IF errs = << >> THEN << >> ELSE << PushCall(errs) >>

\* the sends for the failure lines
SendErrors(errs) == Pushes(Chunks(errs, ChunkSize))

-----------------------------------------------------------------------------
(* One inbound message, from the call of on_message to its return *)

MsgLines == { <<"M">>, <<"A", " ", "8">>, <<"TA", " ", "8">> }

\* texts with no visible character
BlankTexts == { << <<" ">> >>, << << >>, <<" ", "IDSP">> >> }

KEY_A == <<"A">>

\* what load_cast_df may return: the key column of the sheet
Rosters == { {}, {KEY_A} }

Init ==
    /\ mode = "handler"
    /\ pc = "received"
    /\ text \in SeqsUpTo(MsgLines, MaxMsgLines) \cup BlankTexts
    /\ files = {}      \* OUTPUT_DIR as os.makedirs leaves it on a fresh instance
    /\ cast_df = {} /\ loads = 0 /\ idx = 0
    /\ urls = << >> /\ errors = << >> /\ outbound = << >> /\ trace = << >>
    /\ ParseIdle /\ ThreadsIdle /\ DrawIdle

\* text = (event.message.text or "").strip(); the parser is entered
Receive ==
    /\ pc = "received"
    /\ ptext' = StripText(text)
    /\ pc' = "parse"
    /\ UNCHANGED << mode, drawVars, ppos, current_store, items, itemLine, text, cast_df,
                    loads, idx, urls, errors, outbound, trace, files, threadVars >>

ParserDone == pc = "parse" /\ ppos = Len(ptext)

\* "if not items": the usage text is replied and the handler returns
ReturnNoItems ==
    /\ ParserDone
    /\ NoItems(items)
    /\ outbound' = Append(outbound, ReplyCall(<< USAGE >>))
    /\ pc' = "returned_no_items"
    /\ UNCHANGED << mode, drawVars, parseVars, text, cast_df, loads, idx, urls, errors,
                    trace, files, threadVars >>

ItemsParsed ==
    /\ ParserDone
    /\ ~NoItems(items)
    /\ pc' = "load"
    /\ UNCHANGED << mode, drawVars, parseVars, text, cast_df, loads, idx, urls, errors,
                    outbound, trace, files, threadVars >>

\* cast_df = load_cast_df()
LoadRoster ==
    /\ pc = "load"
    /\ \E r \in Rosters : cast_df' = r
    /\ loads' = loads + 1
    /\ pc' = AfterEntry("start", 0, Len(items))
    /\ UNCHANGED << mode, drawVars, parseVars, text, idx, urls, errors, outbound, trace,
                    files, threadVars >>

\* load_cast_df raises: the error is replied and the handler returns
LoadRosterRaises ==
    /\ pc = "load"
    /\ loads' = loads + 1
    /\ outbound' = Append(outbound, ReplyCall(<< ROSTER_ERROR >>))
    /\ pc' = AfterRosterError
    /\ UNCHANGED << mode, drawVars, parseVars, text, cast_df, idx, urls, errors, trace,
                    files, threadVars >>

InLoop == pc = "loop" /\ idx < Len(items)
Entry == items[idx + 1]

Step(outcome, base, out) ==
    [entry |-> idx + 1, outcome |-> outcome, base |-> base, out |-> out]

\* an iteration whose lookup finds no row
ProcessMiss ==
    /\ InLoop
    /\ ~Lookup(cast_df, unidecode(Entry.name2))
    /\ errors' = MissResult(errors, Entry)
    /\ trace' = Append(trace, Step("miss", << >>, << >>))
    /\ idx' = idx + 1
    /\ pc' = AfterEntry("miss", idx + 1, Len(items))
    /\ UNCHANGED << mode, drawVars, parseVars, text, cast_df, loads, urls, outbound,
                    files, threadVars >>

\* an iteration whose lookup finds a row and whose create_receipt returns
ProcessRenderOk ==
    /\ InLoop
    /\ Lookup(cast_df, unidecode(Entry.name2))
    /\ LET out == get_unique_path(files, FileName(Entry))
       IN  /\ files' = files \cup {out}
           /\ urls' = OkResult(urls, Entry, out)
           /\ trace' = Append(trace, Step("ok", FileName(Entry), out))
    /\ idx' = idx + 1
    /\ pc' = AfterEntry("ok", idx + 1, Len(items))
    /\ UNCHANGED << mode, drawVars, parseVars, text, cast_df, loads, errors, outbound,
                    threadVars >>

\* an iteration whose lookup finds a row and whose create_receipt raises,
\* with or without the file left behind
ProcessRenderRaises ==
    /\ InLoop
    /\ Lookup(cast_df, unidecode(Entry.name2))
    /\ LET out == get_unique_path(files, FileName(Entry))
       IN  /\ \E opened \in BOOLEAN :
                 files' = IF opened THEN files \cup {out} ELSE files
           /\ errors' = RaiseResult(errors, Entry)
           /\ trace' = Append(trace, Step("raised", FileName(Entry), out))
    /\ idx' = idx + 1
    /\ pc' = AfterEntry("raised", idx + 1, Len(items))
    /\ UNCHANGED << mode, drawVars, parseVars, text, cast_df, loads, urls, outbound,
                    threadVars >>

\* the replies and pushes after the loop
Respond ==
    /\ pc = "respond"
    /\ outbound' = outbound \o SendUrls(urls) \o SendErrors(errors)
    /\ pc' = "done"
    /\ UNCHANGED << mode, drawVars, parseVars, text, cast_df, loads, idx, urls, errors,
                    trace, files, threadVars >>

Next ==
    \/ Receive
    \/ ParseStep
    \/ ReturnNoItems
    \/ ItemsParsed
    \/ LoadRoster
    \/ LoadRosterRaises
    \/ ProcessMiss
    \/ ProcessRenderOk
    \/ ProcessRenderRaises
    \/ Respond

Spec == Init /\ [][Next]_vars

-----------------------------------------------------------------------------
(* Properties *)

Range(s) == { s[i] : i \in DOMAIN s }

\* number of the first k loop iterations that put a line on urls / on errors
UrlPos(k) == Cardinality({ j \in 1 .. k : trace[j].outcome = "ok" })
ErrPos(k) == Cardinality({ j \in 1 .. k : trace[j].outcome \in {"miss", "raised"} })

LoopOver == pc \in {"respond", "done"}

\* C1: when the per-entry loop is over, the success lines and the failure
\* lines together are as many as the parsed entries, and after every
\* iteration they are as many as the entries consumed so far.
C1_OneLinePerEntry ==
    /\ pc = "loop" => Len(urls) + Len(errors) = idx
    /\ LoopOver => Len(urls) + Len(errors) = Len(items)

C1_Witness ==
    /\ pc = "respond"
    /\ \E i, j, k \in DOMAIN trace :
          /\ trace[i].outcome = "miss"
          /\ trace[j].outcome = "ok"
          /\ trace[k].outcome = "raised"

\* C2: no line that contains an alias of a group is the source of an emitted
\* entry.
C2_AliasLineNeverEmitted ==
    \A k \in DOMAIN itemLine :
        \A g \in DOMAIN STORE_NAMES :
            ~AnyKeyIn(STORE_NAMES[g].keys, Strip(ptext[itemLine[k]]))

\* C3: with calls that do not overlap, every call's path did not exist when
\* the call started, the files that existed then still exist, two calls that
\* wrote did not write the same path, and a request for a.pdf gives a_2.pdf
\* when only a.pdf exists and a_3.pdf when a.pdf and a_2.pdf exist.
C3_SequentialCallsNeverOverwrite ==
    /\ \A k \in DOMAIN calls :
          /\ calls[k].path \notin calls[k].before
          /\ calls[k].before \subseteq files
          /\ calls[k].wrote => calls[k].path \in files
          /\ (calls[k].base = A_PDF /\ calls[k].before = {A_PDF})
                => calls[k].path = A_2_PDF
          /\ (calls[k].base = A_PDF /\ calls[k].before = {A_PDF, A_2_PDF})
                => calls[k].path = A_3_PDF
    /\ \A j, k \in DOMAIN calls :
          (j < k /\ calls[j].wrote /\ calls[k].wrote) => calls[j].path # calls[k].path

C3_Witness ==
    \E j, k \in DOMAIN calls :
        /\ j < k
        /\ calls[j].base = A_PDF /\ calls[j].before = {A_PDF}
        /\ calls[j].wrote /\ calls[j].path = A_2_PDF
        /\ calls[k].base = A_PDF /\ calls[k].wrote /\ calls[k].path = A_3_PDF

\* C4: with calls that may overlap, no call writes over a file that exists
\* when it saves, and two calls that wrote did not write the same path.
C4_ParallelCallsNeverOverwrite ==
    /\ \A k \in DOMAIN calls : calls[k].wrote => calls[k].path \notin calls[k].at_save
    /\ \A j, k \in DOMAIN calls :
          (j < k /\ calls[j].wrote /\ calls[k].wrote) => calls[j].path # calls[k].path

\* number of times the line x is a message of an outbound call / an element
\* of the sequence s
Occurrences(s, x) == Cardinality({ i \in DOMAIN s : s[i] = x })
RECURSIVE TimesSent(_, _)
TimesSent(cs, x) ==
    IF cs = << >> THEN 0
    ELSE Occurrences(Head(cs).messages, x) + TimesSent(Tail(cs), x)

\* C5: when the handler is done, every success line and every failure line
\* has been sent as often as it was produced: once per entry.
C5_EveryLineSentOnce ==
    pc = "done" =>
        \A x \in Range(urls) \cup Range(errors) :
            TimesSent(outbound, x) = Occurrences(urls \o errors, x)

\* C6: a create_receipt that raises for an entry puts that entry's failure
\* line with the cause on errors, and the loop still looks up every later
\* entry and calls create_receipt for each one that is registered.
C6_RenderFailureDoesNotAbort ==
    /\ \A k \in DOMAIN trace :
          trace[k].outcome = "raised" =>
              /\ ErrPos(k) \in DOMAIN errors
              /\ errors[ErrPos(k)] = FailedLine(items[trace[k].entry], RenderError)
    /\ LoopOver =>
          /\ Len(trace) = Len(items)
          /\ \A k \in DOMAIN trace :
                /\ trace[k].entry = k
                /\ unidecode(items[k].name2) \in cast_df
                      => trace[k].outcome \in {"ok", "raised"}

C6_Witness ==
    /\ LoopOver
    /\ \E i, j \in DOMAIN trace :
          i < j /\ trace[i].outcome = "raised" /\ trace[j].outcome = "ok"

\* C7: an entry whose normalized label is not in the roster gets one failure
\* line of kind unregistered with its group, label and amount, no
\* create_receipt call, and the loop goes on to the next entry.
C7_UnregisteredEntry ==
    /\ \A k \in DOMAIN trace :
          /\ trace[k].entry = k
          /\ unidecode(items[k].name2) \notin cast_df =>
                /\ trace[k].outcome = "miss"
                /\ trace[k].base = << >>
                /\ ErrPos(k) \in DOMAIN errors
                /\ errors[ErrPos(k)] =
                      [kind |-> "unregistered", store |-> items[k].store,
                       name2 |-> items[k].name2, amount |-> items[k].amount,
                       detail |-> << >>]
    /\ LoopOver => Len(trace) = Len(items)
    /\ Len(errors) = IF trace = << >> THEN 0 ELSE ErrPos(Len(trace))

C7_Witness ==
    /\ pc = "done"
    /\ \E k \in DOMAIN trace :
          /\ k < Len(trace)
          /\ trace[k].outcome = "miss"
          /\ trace[k + 1].outcome = "ok"

\* C8: once the roster error has been replied, the handler has returned with
\* that reply as its only outbound call, and no entry was looked up, rendered
\* or reported.
C8_RosterUnavailable ==
    ReplyCall(<< ROSTER_ERROR >>) \in Range(outbound) =>
        /\ pc = "returned_roster_error"
        /\ outbound = << ReplyCall(<< ROSTER_ERROR >>) >>
        /\ trace = << >> /\ idx = 0
        /\ urls = << >> /\ errors = << >>

C8_Witness ==
    /\ pc = "returned_roster_error"
    /\ Len(items) >= 2

\* C9: once the parser has returned zero entries, the handler has returned
\* with the usage reply as its only outbound call, without loading the roster
\* and without an iteration of the loop; a finished message with entries and
\* no success starts with a different reply.
C9_NoUsableInstructions ==
    /\ (pc \notin {"received", "parse"} /\ items = << >>) =>
          /\ pc = "returned_no_items"
          /\ outbound = << ReplyCall(<< USAGE >>) >>
          /\ loads = 0 /\ trace = << >>
    /\ (pc = "done" /\ urls = << >>) =>
          /\ errors # << >>
          /\ outbound[1] = ReplyCall(<< NONE_FOUND >>)
          /\ outbound[1] # ReplyCall(<< USAGE >>)

C9_Witness ==
    /\ pc = "returned_no_items"
    /\ \E i \in DOMAIN text : LINE_PATTERN_match(Strip(text[i])).matched

\* C10: while the parser runs and when it has returned, the entries are in
\* the order of the lines they were parsed from; in the loop and after it,
\* each of the two lists holds its entries' lines in the order of the entries.
C10_OrderKept ==
    /\ pc \in {"parse", "load", "returned_no_items"} =>
          /\ Len(itemLine) = Len(items)
          /\ \A k \in DOMAIN items :
                /\ k > 1 => itemLine[k - 1] < itemLine[k]
                /\ LET m == LINE_PATTERN_match(Strip(ptext[itemLine[k]]))
                   IN  /\ m.matched
                       /\ items[k].name2 = Strip(m.name2)
                       /\ items[k].amount = DecVal(StripCommas(m.amount_s))
    /\ \A k \in DOMAIN trace :
          /\ trace[k].entry = k
          /\ trace[k].outcome = "ok" =>
                /\ UrlPos(k) \in DOMAIN urls
                /\ urls[UrlPos(k)] = UrlLine(items[k], trace[k].out)
          /\ trace[k].outcome = "miss" =>
                /\ ErrPos(k) \in DOMAIN errors
                /\ errors[ErrPos(k)] = UnregisteredLine(items[k])
          /\ trace[k].outcome = "raised" =>
                /\ ErrPos(k) \in DOMAIN errors
                /\ errors[ErrPos(k)] = FailedLine(items[k], RenderError)

C10_Witness ==
    /\ pc = "done"
    /\ Len(urls) >= 2 /\ Len(errors) >= 2
    /\ \E i, j \in DOMAIN trace :
          i < j /\ trace[i].outcome = "raised" /\ trace[j].outcome = "miss"
    /\ \E i, j \in DOMAIN items : items[i].name2 # items[j].name2

\* the group a line switches to: the first store, in the order of the
\* keyword table, with a keyword in the line ("None" for a line with none)
MarkerGroup(line) ==
    LET hits == { g \in DOMAIN STORE_NAMES :
                    \E j \in DOMAIN STORE_NAMES[g].keys :
                        Contains(STORE_NAMES[g].keys[j], line) }
    IN  IF hits = {} THEN "None"
        ELSE STORE_NAMES[CHOOSE g \in hits : \A h \in hits : g <= h].store

IsMarker(i) == MarkerGroup(Strip(ptext[i])) # "None"
MarkerUpTo(i) == \E j \in 1 .. i : IsMarker(j)
LastMarker(i) == CHOOSE j \in 1 .. i : IsMarker(j) /\ \A h \in 1 .. i : IsMarker(h) => h <= j

\* the amount text of raw line i, for a line of the form "label amount"
Shaped(i) == LINE_PATTERN_match(Strip(ptext[i])).matched
AmountText(i) == LINE_PATTERN_match(Strip(ptext[i])).amount_s
DigitsOf(s) == SelectSeq(s, LAMBDA c : c \in DigitChars)
HasComma(s) == \E i \in DOMAIN s : s[i] = ","

\* C11: every entry carries the group of the last group-marker line at or
\* before its line, every "label amount" line with a digit that has a marker
\* at or before it is emitted, and the example message parses to (MINE, Satou,
\* 12000), (MINE, Suzuki, 15000), (M, Tanaka, 8000).
C11_GroupPersists ==
    /\ \A k \in DOMAIN items :
          /\ MarkerUpTo(itemLine[k])
          /\ items[k].store = MarkerGroup(Strip(ptext[LastMarker(itemLine[k])]))
    /\ \A i \in 1 .. ppos :
          (Shaped(i) /\ DigitsOf(AmountText(i)) # << >> /\ MarkerUpTo(i))
              => i \in Range(itemLine)
    /\ (ptext = ExampleText /\ ppos = Len(ptext)) =>
          items = << [store |-> "MINE", name2 |-> <<"SA", "TOU">>, amount |-> 12000],
                     [store |-> "MINE", name2 |-> <<"SUZU", "KI">>, amount |-> 15000],
                     [store |-> "M", name2 |-> <<"TA", "NAKA">>, amount |-> 8000] >>

C11_Witness == ptext = ExampleText /\ ppos = Len(ptext) /\ Len(items) = 3

\* C13: an emitted amount is the number its digits spell, commas or not, so
\* two amount texts with the same digits give the same amount; a "label
\* amount" line under a group is emitted when its amount text has a digit and
\* is not emitted when it has none.
C13_CommasIgnored ==
    /\ \A k \in DOMAIN items :
          /\ Shaped(itemLine[k])
          /\ items[k].amount = DecVal(DigitsOf(AmountText(itemLine[k])))
          /\ items[k].amount >= 0
    /\ \A j, k \in DOMAIN items :
          DigitsOf(AmountText(itemLine[j])) = DigitsOf(AmountText(itemLine[k]))
              => items[j].amount = items[k].amount
    /\ \A i \in 1 .. ppos :
          (Shaped(i) /\ MarkerUpTo(i)) =>
              (i \in Range(itemLine) <=> DigitsOf(AmountText(i)) # << >>)

C13_Witness ==
    \E j, k \in DOMAIN items :
        /\ HasComma(AmountText(itemLine[j]))
        /\ ~HasComma(AmountText(itemLine[k]))
        /\ items[j].amount = 12 /\ items[k].amount = 12

\* C14: after a line with keywords of one or more groups, the current group
\* is the first group of the keyword table that has a keyword in the line;
\* after the line MINE it is MINE.
C14_FirstDeclaredGroupWins ==
    ppos >= 1 =>
        LET line == Strip(ptext[ppos])
        IN  /\ MarkerGroup(line) # "None" => current_store = MarkerGroup(line)
            /\ line = <<"M", "I", "N", "E">> => current_store = "MINE"

C14_Witness ==
    /\ ppos >= 1
    /\ Strip(ptext[ppos]) = <<"M", "I", "N", "E">>
    /\ AnyKeyIn(STORE_NAMES[1].keys, Strip(ptext[ppos]))
    /\ AnyKeyIn(STORE_NAMES[2].keys, Strip(ptext[ppos]))
    /\ current_store = "MINE"

\* C15: no line is emitted while no group-marker line has been seen, and
\* every entry's group is a group of the keyword table.
C15_NoEntryWithoutGroup ==
    /\ \A k \in DOMAIN items : items[k].store \in Stores
    /\ \A i \in 1 .. ppos : ~MarkerUpTo(i) => i \notin Range(itemLine)

C15_Witness ==
    /\ ppos = 3
    /\ Shaped(1) /\ DigitsOf(AmountText(1)) # << >> /\ ~MarkerUpTo(1)
    /\ itemLine = <<3>>

\* the texts drawn at the place of the k-th personal-detail line
DetailAt(y) ==
    { canvas[i].text : i \in { j \in DOMAIN canvas :
                                  /\ canvas[j].op = "drawString"
                                  /\ canvas[j].x = FromLeft(20, 90)
                                  /\ canvas[j].y = y } }

\* the drawString calls that put the payee label in its place
LabelOps ==
    { i \in DOMAIN canvas : /\ canvas[i].op = "drawString"
                            /\ canvas[i].x = FromLeft(20, 240)
                            /\ canvas[i].y = 80 }

\* C12: on a drawn page the payee label is drawn once, as the last operation;
\* when it equals the issuer constant it is black and none of the four
\* personal-detail lines is drawn, otherwise it is purple and the legal name,
\* the address, the phone number and the labelled birthdate are each drawn
\* once.
C12_VariantFromLabel ==
    canvas # << >> =>
        /\ LabelOps = {Len(canvas)}
        /\ canvas[Len(canvas)].text = receipt.name2
        /\ receipt.name2 = COMMON_COMPANY_NAME =>
              /\ canvas[Len(canvas)].color = "black"
              /\ \A y \in {65, 70, 75, 80} : DetailAt(y) = {}
              /\ \A i \in DOMAIN canvas : canvas[i].op = "drawString" => canvas[i].size # 10
        /\ receipt.name2 # COMMON_COMPANY_NAME =>
              /\ canvas[Len(canvas)].color = "purple"
              /\ DetailAt(65) = {receipt.name}
              /\ DetailAt(70) = {receipt.address}
              /\ DetailAt(75) = {receipt.phone_number}
              /\ DetailAt(80) = {<<"SEINENGAPPI", " ">> \o receipt.birthdate}
              /\ Cardinality({ i \in DOMAIN canvas :
                                  canvas[i].op = "drawString" /\ canvas[i].size = 10 }) = 4

C12_Witness ==
    /\ canvas # << >>
    /\ receipt.name2 = COMMON_COMPANY_NAME
    /\ receipt.name # << >> /\ receipt.address # << >>

\* the outbound calls made with the reply token
ReplyCalls == { i \in DOMAIN outbound : outbound[i].api = "reply_message" }

\* C16: when the handler is done, reply_message has been called at most once,
\* and every call after the first one made is a push_message.
C16_ReplyTokenUsedOnce ==
    pc = "done" =>
        /\ Cardinality(ReplyCalls) <= 1
        /\ \A i \in DOMAIN outbound : i > 1 => outbound[i].api = "push_message"

\* C17: every reply_message and every push_message call carries at least one
\* and at most five messages.
C17_CallSize ==
    \A i \in DOMAIN outbound :
        /\ Len(outbound[i].messages) >= 1
        /\ Len(outbound[i].messages) <= ChunkSize

C17_Witness ==
    /\ pc = "done"
    /\ Len(errors) > ChunkSize
    /\ \E i \in DOMAIN outbound : Len(outbound[i].messages) = ChunkSize
    /\ \E i \in DOMAIN outbound : Len(outbound[i].messages) < ChunkSize

\* the loop iterations whose create_receipt returned
OkSteps == { k \in DOMAIN trace : trace[k].outcome = "ok" }

\* C18: the link of the success line of an entry is the path its
\* create_receipt call returned, a file that is in the output directory, and
\* the success lines of two entries of one message never carry the same link.
C18_LinkNamesWrittenFile ==
    /\ \A k \in OkSteps :
          /\ UrlPos(k) \in DOMAIN urls
          /\ urls[UrlPos(k)].detail = trace[k].out
          /\ trace[k].out \in files
    /\ \A j, k \in OkSteps :
          j # k => urls[UrlPos(j)].detail # urls[UrlPos(k)].detail

C18_Witness ==
    \E j, k \in OkSteps :
        /\ j < k
        /\ items[trace[j].entry].name2 = items[trace[k].entry].name2
        /\ items[trace[j].entry].amount = items[trace[k].entry].amount
        /\ trace[k].out # trace[k].base
        /\ urls[UrlPos(k)].detail # FileName(items[trace[k].entry])

====
